---- MODULE Spec2Model ----
(***************************************************************************)
(* SQLite3 bindings of USearch (python/lib_sqlite.cpp): the argument       *)
(* format detector and vector builder of the dense distance functions,     *)
(* and the process-wide scratch buffer of distance_levenshtein.            *)
(***************************************************************************)
EXTENDS Integers, Sequences, FiniteSets, TLC

VARIABLES
    pc,                 \* position of the modelled call: "ready", "binary_done", "done"
    fn,                 \* the registered function being called
    argv,               \* the argument list of the call
    encoding,           \* branch of sqlite_dense_export the call took
    metric_calls,       \* metric_t invocations made by the call, in order
    result_error,       \* messages passed to sqlite3_result_error by the call
    result_double,      \* values passed to sqlite3_result_double by the call
    elems,              \* the two element vectors encoded both ways (binary, then text)
    style,              \* how the text encoding of the pair is written
    blob_call,          \* outcome of the binary-encoded call of the pair
    temporary_memory,   \* the process-wide scratch buffer {start, length}
    blocks,             \* every region the allocator has handed out: its size, how often it was released
    last_run,           \* the scratch region the latest sz_levenshtein run was given
    lev_result,         \* how the latest distance_levenshtein call ended
    calls,              \* distance_levenshtein calls made
    reallocs,           \* sqlite3_realloc64 calls made
    max_needed,         \* largest scratch size a call has asked for
    teardowns,          \* cleanup_temporary_memory callbacks run
    crashed,            \* the process died in a kernel run on an unusable region
    tpc,                \* position of each thread inside sqlite_levenshtein
    tneeded,            \* memory_needed of each thread's call
    tscratch,           \* the pointer each thread's kernel run was given
    raced               \* a thread wrote the buffer while the other was inside a call

dense_vars == <<pc, fn, argv, encoding, metric_calls, result_error, result_double, elems, style, blob_call>>

lev_vars == <<temporary_memory, blocks, last_run, lev_result, calls, reallocs, max_needed, teardowns, crashed>>

thread_vars == <<tpc, tneeded, tscratch, raced>>

vars == <<dense_vars, lev_vars, thread_vars>>

-----------------------------------------------------------------------------
(* Bounds of the model *)

MaxNumerals == 2        \* numerals per delimited-text argument
MaxElems == 2           \* elements per packed binary argument
MaxArgc == 4            \* longest argument list
MaxNeeded == 4          \* largest scratch size a call asks for
MaxCalls == 4           \* distance_levenshtein calls in one run
MaxConnections == 2     \* database connections the function is registered on
MaxRaceCalls == 2       \* distance_levenshtein calls the two threads make in one run

(* Program constants *)

CHAR_BIT == 8
EarthRadiusMeters == 6371009
NULL == 0

NullMessage == "NULL"   \* char const* error_message = NULL

-----------------------------------------------------------------------------
(* Scalar kinds, metric kinds and the registration table *)

ScalarKinds == {"b1x8", "i8", "f16", "f32", "f64"}

bits_per_scalar(scalar_kind) ==
    CASE scalar_kind = "b1x8" -> 1
      [] scalar_kind = "i8" -> 8
      [] scalar_kind = "f16" -> 16
      [] scalar_kind = "f32" -> 32
      [] scalar_kind = "f64" -> 64

parsed_scalar_kind_all_f32(scalar_kind_ak) == "f32"

\* parsed_scalar_kind_gt<kind>::kind : f64 stays f64, everything else parses as f32
parsed_scalar_kind(scalar_kind_ak) ==
    IF scalar_kind_ak = "f64" THEN "f64" ELSE "f32"

Reg(name, scalar_kind, metric_kind) ==
    [name |-> name, scalar_kind |-> scalar_kind, metric_kind |-> metric_kind]

\* sqlite3_compiled_init: every dense function registered with num_params = -1
Functions ==
    { Reg("distance_haversine_meters", "f64", "haversine"),
      Reg("distance_hamming_binary", "b1x8", "hamming"),
      Reg("distance_jaccard_binary", "b1x8", "jaccard"),
      Reg("distance_haversine_f32", "f32", "haversine"),
      Reg("distance_haversine_f64", "f64", "haversine") }
    \cup { Reg("distance_sqeuclidean_" \o k, k, "l2sq") : k \in {"f64", "f32", "f16", "i8"} }
    \cup { Reg("distance_cosine_" \o k, k, "cos") : k \in {"f64", "f32", "f16", "i8"} }
    \cup { Reg("distance_inner_" \o k, k, "ip") : k \in {"f64", "f32", "f16", "i8"} }
    \cup { Reg("distance_divergence_" \o k, k, "divergence") : k \in {"f64", "f32", "f16", "i8"} }

-----------------------------------------------------------------------------
(* Memory: a vector in memory is a sequence of bytes.  A byte remembers     *)
(* which scalar it is a part of, so that reading memory with another        *)
(* scalar kind than it was written with does not give the values back.      *)

Byte(kind, value, bits, index) == [k |-> kind, v |-> value, bits |-> bits, i |-> index]

Garbage == -1

RECURSIVE Flatten(_)
Flatten(seqs) ==
    IF seqs = <<>> THEN <<>> ELSE Head(seqs) \o Flatten(Tail(seqs))

Min(a, b) == IF a < b THEN a ELSE b

\* bytes of an array of scalars of kind `kind`; b1x8 packs eight elements per byte
Pack(kind, values) ==
    IF kind = "b1x8"
    THEN [w \in 1..((Len(values) + 7) \div 8) |->
            Byte(kind, 0, SubSeq(values, 8 * (w - 1) + 1, Min(8 * w, Len(values))), 1)]
    ELSE LET width == bits_per_scalar(kind) \div CHAR_BIT IN
         Flatten([j \in 1..Len(values) |-> [i \in 1..width |-> Byte(kind, values[j], <<>>, i)]])

\* what a kernel reads when it takes `dimensions` scalars of kind `kind` from memory
Unpack(kind, bytes, dimensions) ==
    IF kind = "b1x8"
    THEN [j \in 1..dimensions |->
            LET w == ((j - 1) \div 8) + 1
                b == ((j - 1) % 8) + 1
            IN IF w > Len(bytes) \/ bytes[w].k # kind THEN Garbage
               ELSE IF b <= Len(bytes[w].bits) THEN bytes[w].bits[b] ELSE 0]
    ELSE LET width == bits_per_scalar(kind) \div CHAR_BIT IN
         [j \in 1..dimensions |->
            LET first == width * (j - 1) + 1 IN
            IF /\ first + width - 1 <= Len(bytes)
               /\ \A i \in 1..width :
                     /\ bytes[first + i - 1].k = kind
                     /\ bytes[first + i - 1].i = i
                     /\ bytes[first + i - 1].v = bytes[first].v
            THEN bytes[first].v ELSE Garbage]

-----------------------------------------------------------------------------
(* sqlite3_value: the type tag, and the payload of that type *)

Blob(bytes) == [type |-> "BLOB", blob |-> bytes, text |-> <<>>, num |-> 0]
Text(chars) == [type |-> "TEXT", blob |-> <<>>, text |-> chars, num |-> 0]
Integer(v) == [type |-> "INTEGER", blob |-> <<>>, text |-> <<>>, num |-> v]
Float(v) == [type |-> "FLOAT", blob |-> <<>>, text |-> <<>>, num |-> v]
Null == [type |-> "NULL", blob |-> <<>>, text |-> <<>>, num |-> 0]

sqlite3_value_type(value) == value.type

sqlite3_value_bytes(value) ==
    IF value.type = "BLOB" THEN Len(value.blob) ELSE Len(value.text)

\* sqlite3_value_int: the stored integer (the integers of the model fit 32 bits)
sqlite3_value_int(value) == value.num

sqlite3_value_double(value) == value.num

-----------------------------------------------------------------------------
(* Delimited text: a string is a sequence of one-character strings *)

Digits == <<"0", "1", "2", "3", "4", "5", "6", "7", "8", "9">>

IsDigit(c) == \E d \in 1..10 : Digits[d] = c

DigitValue(c) == (CHOOSE d \in 1..10 : Digits[d] = c) - 1

\* sz_count_char_swar(vec, bytes, ","): occurrences of the character in the string
RECURSIVE sz_count_char_swar(_, _)
sz_count_char_swar(vec, c) ==
    IF vec = <<>> THEN 0
    ELSE (IF Head(vec) = c THEN 1 ELSE 0) + sz_count_char_swar(Tail(vec), c)

\* if (bytes && vec[0] == '[') ++vec, --bytes;
strip_bracket(vec) ==
    IF vec # <<>> /\ Head(vec) = "[" THEN Tail(vec) ELSE vec

\* while (bytes && vec[0] is one of `chars`) ++vec, --bytes;
RECURSIVE skip(_, _)
skip(vec, chars) ==
    IF vec # <<>> /\ Head(vec) \in chars THEN skip(Tail(vec), chars) ELSE vec

RECURSIVE read_digits(_, _, _)
read_digits(vec, value, count) ==
    IF vec # <<>> /\ IsDigit(Head(vec))
    THEN read_digits(Tail(vec), 10 * value + DigitValue(Head(vec)), count + 1)
    ELSE [value |-> value, count |-> count, ptr |-> vec]

\* std::from_chars / std::strtod on an unsigned decimal numeral: the longest
\* numeral at the start of the range, or a failure when there is none
from_chars(vec) ==
    LET r == read_digits(vec, 0, 0) IN
    [ok |-> r.count > 0, value |-> r.value, ptr |-> r.ptr]

\* the parse loop of the TEXT branch, from element i on
RECURSIVE parse_text(_, _, _, _, _, _)
parse_text(vec1, vec2, i, dimensions, parsed1, parsed2) ==
    IF i = dimensions
    THEN [ok |-> TRUE, parsed1 |-> parsed1, parsed2 |-> parsed2]
    ELSE LET result1 == from_chars(skip(vec1, {" "}))
             result2 == from_chars(skip(vec2, {" "}))
         IN IF ~result1.ok \/ ~result2.ok
            THEN [ok |-> FALSE, parsed1 |-> parsed1, parsed2 |-> parsed2]
            ELSE parse_text(skip(result1.ptr, {" ", ","}), skip(result2.ptr, {" ", ","}),
                            i + 1, dimensions,
                            Append(parsed1, result1.value), Append(parsed2, result2.value))

-----------------------------------------------------------------------------
(* sqlite_dense_export *)

\* metric_t(dimensions, metric_kind, scalar_kind) applied to two byte pointers
metric_t(dimensions, metric_kind, scalar_kind, vec1, vec2) ==
    [dimensions |-> dimensions, metric_kind |-> metric_kind, scalar_kind |-> scalar_kind,
     vec1 |-> vec1, vec2 |-> vec2]

\* a return with *error_message_out set
Failure(enc, message) ==
    [encoding |-> enc, error_message |-> message, metric_calls |-> <<>>, distance |-> <<>>]

\* a return after `*distance_out = metric(...)`
Computed(enc, call) ==
    [encoding |-> enc, error_message |-> NullMessage, metric_calls |-> <<call>>, distance |-> <<call>>]

dense_blob(scalar_kind_ak, metric_kind_ak, argv_) ==
    LET vec1 == argv_[1].blob
        vec2 == argv_[2].blob
        bytes1 == sqlite3_value_bytes(argv_[1])
        bytes2 == sqlite3_value_bytes(argv_[2])
    IN IF bytes1 # bytes2
       THEN Failure("Binary", "Vectors have different number of dimensions")
       ELSE LET dimensions == (bytes1 * CHAR_BIT) \div bits_per_scalar(scalar_kind_ak) IN
            Computed("Binary", metric_t(dimensions, metric_kind_ak, scalar_kind_ak, vec1, vec2))

dense_text(scalar_kind_ak, metric_kind_ak, argv_) ==
    LET vec1 == argv_[1].text
        vec2 == argv_[2].text
        commas1 == sz_count_char_swar(vec1, ",")
        commas2 == sz_count_char_swar(vec2, ",")
    IN IF commas1 # commas2
       THEN Failure("DelimitedText", "Vectors have different number of dimensions")
       ELSE LET dimensions == commas1 + 1
                kind == parsed_scalar_kind(scalar_kind_ak)
                parsed == parse_text(strip_bracket(vec1), strip_bracket(vec2), 0, dimensions, <<>>, <<>>)
            IN IF ~parsed.ok
               THEN Failure("DelimitedText", "Number can't be parsed")
               ELSE Computed("DelimitedText",
                             metric_t(dimensions, metric_kind_ak, kind,
                                      Pack(kind, parsed.parsed1), Pack(kind, parsed.parsed2)))

\* one `switch (sqlite3_value_type(argv[i]))` of the column branch
column_ok(value) == sqlite3_value_type(value) \in {"FLOAT", "INTEGER", "NULL"}

column_scalar(value) ==
    CASE sqlite3_value_type(value) = "FLOAT" -> sqlite3_value_double(value)
      [] sqlite3_value_type(value) = "INTEGER" -> sqlite3_value_int(value)
      [] OTHER -> 0

dense_columns(scalar_kind_ak, metric_kind_ak, argv_) ==
    LET dimensions == Len(argv_) \div 2
        kind == parsed_scalar_kind(scalar_kind_ak)
    IN IF \E i \in 1..(2 * dimensions) : ~column_ok(argv_[i])
       THEN Failure("ColumnTuple", "Scalar columns may only contain 32-bit integers, floats, or NULLs.")
       ELSE LET parsed1 == [i \in 1..dimensions |-> column_scalar(argv_[i])]
                parsed2 == [i \in 1..dimensions |-> column_scalar(argv_[dimensions + i])]
            IN Computed("ColumnTuple",
                        metric_t(dimensions, metric_kind_ak, kind, Pack(kind, parsed1), Pack(kind, parsed2)))

too_few_arguments(argc) == argc < 2

is_blob_pair(argc, type1, type2) == argc = 2 /\ type1 = "BLOB" /\ type2 = "BLOB"

is_text_pair(argc, type1, type2) == argc = 2 /\ type1 = "TEXT" /\ type2 = "TEXT"

is_column_tuple_from_four(argc) == argc % 2 = 0 /\ argc >= 4

is_column_tuple_any(argc) == TRUE

is_column_tuple(argc) == argc % 2 = 0

sqlite_dense_export(scalar_kind_ak, metric_kind_ak, argv_) ==
    LET argc == Len(argv_) IN
    IF too_few_arguments(argc)
    THEN Failure("None", "Distance function expects at least two arguments")
    ELSE LET type1 == sqlite3_value_type(argv_[1])
             type2 == sqlite3_value_type(argv_[2])
         IN IF is_blob_pair(argc, type1, type2) THEN dense_blob(scalar_kind_ak, metric_kind_ak, argv_)
            ELSE IF is_text_pair(argc, type1, type2) THEN dense_text(scalar_kind_ak, metric_kind_ak, argv_)
            ELSE IF is_column_tuple(argc) THEN dense_columns(scalar_kind_ak, metric_kind_ak, argv_)
            ELSE Failure("None", "Number of columns in two vectors must be divisible by two")

Outcome_value_always(exported, scale) ==
    [encoding |-> exported.encoding,
     metric_calls |-> exported.metric_calls,
     result_error |-> IF exported.error_message # NullMessage THEN <<exported.error_message>> ELSE <<>>,
     result_double |-> <<[distance |-> exported.distance, scale |-> scale]>>]

\* what one call of a registered function did: the metric invocations and
\* the calls of sqlite3_result_error / sqlite3_result_double
Outcome(exported, scale) ==
    [encoding |-> exported.encoding,
     metric_calls |-> exported.metric_calls,
     result_error |-> IF exported.error_message # NullMessage THEN <<exported.error_message>> ELSE <<>>,
     result_double |-> IF exported.error_message # NullMessage THEN <<>>
                       ELSE <<[distance |-> exported.distance, scale |-> scale]>>]

sqlite_dense(scalar_kind_ak, metric_kind_ak, argv_) ==
    Outcome(sqlite_dense_export(scalar_kind_ak, metric_kind_ak, argv_), 1)

sqlite_haversine_meters(argv_) ==
    Outcome(sqlite_dense_export("f64", "haversine", argv_), EarthRadiusMeters)

-----------------------------------------------------------------------------
(* Arguments the calls are made with *)

Numerals == {<<"1">>, <<"1", "2">>}

Separators == {<<",">>, <<" ">>, <<",", " ">>}

RECURSIVE Bodies(_)
Bodies(n) ==
    IF n = 0 THEN {<<>>}
    ELSE IF n = 1 THEN Numerals
    ELSE {b \o s \o m : b \in Bodies(n - 1), s \in Separators, m \in Numerals}

Texts == {Text(p \o b) : p \in {<<>>, <<"[">>}, b \in UNION {Bodies(n) : n \in 0..MaxNumerals}}

Words == {<<0, 0, 0, 0, 0, 0, 0, 0>>, <<1, 0, 1, 1, 0, 0, 0, 1>>}

\* vectors of n scalars of a kind (of n bytes of eight elements for b1x8)
Vectors(kind, n) ==
    IF kind = "b1x8"
    THEN {Flatten(ws) : ws \in [1..n -> Words]}
    ELSE [1..n -> {1, 12}]

\* a buffer shorter than one f32 scalar
ShortBlob == Blob(SubSeq(Pack("f32", <<1>>), 1, 2))

Blobs ==
    UNION {{Blob(Pack(k, v)) : v \in UNION {Vectors(k, n) : n \in 0..MaxElems}} : k \in ScalarKinds}
    \cup {ShortBlob}

Scalars == {Null, Integer(3), Float(2)}

OneOfEach == {Null, Integer(3), Float(2), Text(<<"1">>), Blob(Pack("i8", <<1>>))}

ArgLists ==
    {<<>>}
    \cup {<<a>> : a \in OneOfEach}
    \cup {<<a, b>> : a \in Blobs \cup Texts \cup Scalars, b \in Blobs \cup Texts \cup Scalars}
    \cup UNION {[1..n -> OneOfEach] : n \in 3..MaxArgc}

NoOutcome == [encoding |-> "None", metric_calls |-> <<>>, result_error |-> <<>>, result_double |-> <<>>]

-----------------------------------------------------------------------------
(* The allocator and the scratch buffer of distance_levenshtein *)

Threads == {1, 2}

Max(a, b) == IF a > b THEN a ELSE b

NoRun == [scratch |-> NULL, needed |-> 0, usable |-> TRUE, freed |-> FALSE]

\* a kernel run may use `needed` bytes at ptr: the region is allocated, not released, large enough
Usable(heap, ptr, needed) ==
    ptr # NULL /\ heap[ptr].frees = 0 /\ heap[ptr].size >= needed

Released(heap, ptr) == ptr # NULL /\ heap[ptr].frees > 0

\* sqlite3_free(ptr)
sqlite3_free(heap, ptr) ==
    IF ptr = NULL THEN heap
    ELSE [heap EXCEPT ![ptr].frees = @ + 1]

\* sqlite3_realloc64(ptr, n): NULL and the old region untouched when it fails,
\* otherwise the old region resized where it is, or a new region and the
\* old one released
sqlite3_realloc64(heap, ptr, n, how) ==
    CASE how = "failed" -> [ptr |-> NULL, blocks |-> heap]
      [] how = "in_place" -> [ptr |-> ptr, blocks |-> [heap EXCEPT ![ptr].size = n]]
      [] how = "moved" -> [ptr |-> Len(heap) + 1,
                           blocks |-> Append(sqlite3_free(heap, ptr), [size |-> n, frees |-> 0])]

\* the allocator can resize in place only a region that is allocated
CanRealloc(heap, ptr, how) ==
    how = "in_place" => (ptr # NULL /\ heap[ptr].frees = 0)

needs_growth_always(length, memory_needed) == TRUE

needs_growth_never(length, memory_needed) == FALSE

\* if (temporary_memory.length < memory_needed)
needs_growth(length, memory_needed) == length < memory_needed

\* the argument of sz_levenshtein and what the region behind it is at that moment
Run(heap, scratch, memory_needed) ==
    [scratch |-> scratch, needed |-> memory_needed,
     usable |-> Usable(heap, scratch, memory_needed),
     freed |-> Released(heap, scratch)]

LevIdle ==
    /\ temporary_memory = [start |-> NULL, length |-> 0]
    /\ blocks = <<>>
    /\ last_run = NoRun
    /\ lev_result = "none"
    /\ calls = 0
    /\ reallocs = 0
    /\ max_needed = 0
    /\ teardowns = 0
    /\ crashed = FALSE

ThreadsIdle ==
    /\ tpc = [t \in Threads |-> "idle"]
    /\ tneeded = [t \in Threads |-> 0]
    /\ tscratch = [t \in Threads |-> NULL]
    /\ raced = FALSE

DenseIdle ==
    /\ pc = "idle"
    /\ fn = Reg("distance_levenshtein", "text", "levenshtein")
    /\ argv = <<>>
    /\ encoding = "None"
    /\ metric_calls = <<>>
    /\ result_error = <<>>
    /\ result_double = <<>>
    /\ elems = <<>>
    /\ style = "none"
    /\ blob_call = [encoding |-> "None", metric_calls |-> <<>>, result_error |-> <<>>, result_double |-> <<>>]

ArgTypes == {"TEXT", "BLOB"}

\* one whole call of distance_levenshtein; memory_needed is what
\* sz_levenshtein_memory_needed returns for the two strings, `how` is what
\* the allocator does if it is asked
sqlite_levenshtein(type1, type2, memory_needed, how) ==
    /\ ~crashed
    /\ calls' = calls + 1
    /\ IF type1 # "TEXT" \/ type2 # "TEXT"
       THEN /\ lev_result' = "error"
            /\ UNCHANGED <<temporary_memory, blocks, last_run, reallocs, max_needed, crashed>>
       ELSE LET grow == needs_growth(temporary_memory.length, memory_needed)
                r == sqlite3_realloc64(blocks, temporary_memory.start, memory_needed, how)
                memory == IF grow THEN [start |-> r.ptr, length |-> memory_needed] ELSE temporary_memory
                heap == IF grow THEN r.blocks ELSE blocks
                run == Run(heap, memory.start, memory_needed)
            IN /\ grow => CanRealloc(blocks, temporary_memory.start, how)
               /\ temporary_memory' = memory
               /\ blocks' = heap
               /\ reallocs' = reallocs + (IF grow THEN 1 ELSE 0)
               /\ max_needed' = Max(max_needed, memory_needed)
               /\ last_run' = run
               /\ crashed' \in (IF run.usable THEN {FALSE} ELSE {FALSE, TRUE})
               /\ lev_result' = "int"
    /\ UNCHANGED <<teardowns, dense_vars, thread_vars>>

\* the destructor registered with distance_levenshtein
cleanup_temporary_memory ==
    /\ ~crashed
    /\ teardowns < MaxConnections
    /\ teardowns' = teardowns + 1
    /\ IF temporary_memory.start # NULL
       THEN /\ blocks' = sqlite3_free(blocks, temporary_memory.start)
            /\ temporary_memory' = [start |-> NULL, length |-> 0]
       ELSE UNCHANGED <<temporary_memory, blocks>>
    /\ UNCHANGED <<last_run, lev_result, calls, reallocs, max_needed, crashed, dense_vars, thread_vars>>

InitLev == DenseIdle /\ LevIdle /\ ThreadsIdle

\* calls only, the allocator never fails
Grow ==
    \E type1 \in ArgTypes, type2 \in ArgTypes, memory_needed \in 1..MaxNeeded, how \in {"moved", "in_place"} :
        /\ calls < MaxCalls
        /\ sqlite_levenshtein(type1, type2, memory_needed, how)

NextGrow == Grow

SpecGrow == InitLev /\ [][NextGrow]_vars

\* calls while a connection is open, teardowns, an allocator that may fail
Call ==
    \E type1 \in ArgTypes, type2 \in ArgTypes, memory_needed \in 1..MaxNeeded,
       how \in {"moved", "in_place", "failed"} :
        /\ calls < MaxCalls
        /\ teardowns < MaxConnections
        /\ sqlite_levenshtein(type1, type2, memory_needed, how)

Teardown == cleanup_temporary_memory

NextLev == Call \/ Teardown

SpecLev == InitLev /\ [][NextLev]_vars

-----------------------------------------------------------------------------
(* Two threads inside sqlite_levenshtein: the statements of the handler are *)
(* the steps, nothing orders the steps of one thread against the other's   *)

Other(t) == CHOOSE u \in Threads : u # t

InCall(t) == tpc[t] # "idle"

\* type check and memory_needed = sz_levenshtein_memory_needed(bytes1, bytes2)
Enter(t) ==
    \E type1 \in ArgTypes, type2 \in ArgTypes, memory_needed \in 1..MaxNeeded :
        /\ ~crashed
        /\ tpc[t] = "idle"
        /\ calls < MaxRaceCalls
        /\ calls' = calls + 1
        /\ IF type1 # "TEXT" \/ type2 # "TEXT"
           THEN /\ lev_result' = "error"
                /\ UNCHANGED <<tpc, tneeded, max_needed>>
           ELSE /\ tpc' = [tpc EXCEPT ![t] = "check"]
                /\ tneeded' = [tneeded EXCEPT ![t] = memory_needed]
                /\ max_needed' = Max(max_needed, memory_needed)
                /\ UNCHANGED lev_result
        /\ UNCHANGED <<temporary_memory, blocks, last_run, reallocs, teardowns, crashed,
                       tscratch, raced, dense_vars>>

\* if (temporary_memory.length < memory_needed)
CheckLength(t) ==
    /\ ~crashed
    /\ tpc[t] = "check"
    /\ tpc' = [tpc EXCEPT ![t] =
                  IF needs_growth(temporary_memory.length, tneeded[t]) THEN "realloc" ELSE "kernel"]
    /\ UNCHANGED <<lev_vars, tneeded, tscratch, raced, dense_vars>>

\* temporary_memory.start = sqlite3_realloc64(temporary_memory.start, memory_needed)
Realloc(t) ==
    \E how \in {"moved", "in_place"} :
        /\ ~crashed
        /\ tpc[t] = "realloc"
        /\ CanRealloc(blocks, temporary_memory.start, how)
        /\ LET r == sqlite3_realloc64(blocks, temporary_memory.start, tneeded[t], how)
           IN /\ temporary_memory' = [temporary_memory EXCEPT !.start = r.ptr]
              /\ blocks' = r.blocks
        /\ reallocs' = reallocs + 1
        /\ tpc' = [tpc EXCEPT ![t] = "store"]
        /\ raced' = (raced \/ InCall(Other(t)))
        /\ UNCHANGED <<last_run, lev_result, calls, max_needed, teardowns, crashed,
                       tneeded, tscratch, dense_vars>>

\* temporary_memory.length = memory_needed
StoreLength(t) ==
    /\ ~crashed
    /\ tpc[t] = "store"
    /\ temporary_memory' = [temporary_memory EXCEPT !.length = tneeded[t]]
    /\ tpc' = [tpc EXCEPT ![t] = "kernel"]
    /\ raced' = (raced \/ InCall(Other(t)))
    /\ UNCHANGED <<blocks, last_run, lev_result, calls, reallocs, max_needed, teardowns, crashed,
                   tneeded, tscratch, dense_vars>>

\* sz_levenshtein(..., temporary_memory.start) is entered
KernelStart(t) ==
    /\ ~crashed
    /\ tpc[t] = "kernel"
    /\ tscratch' = [tscratch EXCEPT ![t] = temporary_memory.start]
    /\ last_run' = Run(blocks, temporary_memory.start, tneeded[t])
    /\ tpc' = [tpc EXCEPT ![t] = "running"]
    /\ UNCHANGED <<temporary_memory, blocks, lev_result, calls, reallocs, max_needed, teardowns,
                   crashed, tneeded, raced, dense_vars>>

\* sz_levenshtein returns and sqlite3_result_int is called, unless the run
\* on a region that is gone or too small took the process down
KernelReturn(t) ==
    /\ ~crashed
    /\ tpc[t] = "running"
    /\ crashed' \in (IF Usable(blocks, tscratch[t], tneeded[t]) THEN {FALSE} ELSE {FALSE, TRUE})
    /\ lev_result' = "int"
    /\ tpc' = [tpc EXCEPT ![t] = "idle"]
    /\ UNCHANGED <<temporary_memory, blocks, last_run, calls, reallocs, max_needed, teardowns,
                   tneeded, tscratch, raced, dense_vars>>

NextRace ==
    \E t \in Threads :
        \/ Enter(t)
        \/ CheckLength(t)
        \/ Realloc(t)
        \/ StoreLength(t)
        \/ KernelStart(t)
        \/ KernelReturn(t)

SpecRace == InitLev /\ [][NextRace]_vars

-----------------------------------------------------------------------------
(* Properties of the scratch buffer *)

RegionSize(heap, ptr) ==
    IF ptr # NULL /\ heap[ptr].frees = 0 THEN heap[ptr].size ELSE 0

\* C3: with no teardown and an allocator that never fails the recorded length
\* is, after every call, the largest memory_needed of the calls made so far;
\* it never decreases, and a call that needs no more than the recorded length
\* reallocates nothing.
C3_LengthIsMaximumNeeded ==
    /\ [](temporary_memory.length = max_needed)
    /\ [][/\ temporary_memory'.length >= temporary_memory.length
          /\ (calls' = calls + 1 /\ lev_result' = "int"
              /\ last_run'.needed <= temporary_memory.length)
             => (reallocs' = reallocs /\ temporary_memory' = temporary_memory /\ blocks' = blocks)]_vars

C3_Witness ==
    /\ lev_result = "int"
    /\ reallocs = 2
    /\ max_needed >= 3
    /\ temporary_memory.length = max_needed
    /\ last_run.needed < temporary_memory.length
    /\ last_run.usable

\* C8: over calls and teardowns no region is released twice, no call runs the
\* kernel on a released region, and after the teardown of the last connection
\* every region has been released once and the buffer is NULL with length 0.
C8_ReleasedExactlyOnce ==
    /\ \A p \in 1..Len(blocks) : blocks[p].frees <= 1
    /\ ~last_run.freed
    /\ teardowns = MaxConnections =>
          /\ temporary_memory = [start |-> NULL, length |-> 0]
          /\ \A p \in 1..Len(blocks) : blocks[p].frees = 1

\* C10: the recorded length never exceeds the size of the region at start, so
\* start is not NULL while the length is positive, and no kernel run is given
\* a NULL or undersized region.
C10_LengthWithinRegion ==
    /\ temporary_memory.length <= RegionSize(blocks, temporary_memory.start)
    /\ temporary_memory.length > 0 => temporary_memory.start # NULL
    /\ last_run.scratch # NULL \/ last_run.needed = 0
    /\ last_run.needed > 0 => last_run.usable

UnusableRun(t) ==
    tpc[t] = "running" /\ ~Usable(blocks, tscratch[t], tneeded[t])

Quiet == \A t \in Threads : ~InCall(t)

\* C9: a kernel run on a region that is released or too small, and a recorded
\* length below the largest size asked for once both threads are out of the
\* handler, happen, and happen only after one thread wrote the buffer while
\* the other was inside a call.
C9_UnsafeOnlyWhenConcurrent ==
    /\ (\E t \in Threads : UnusableRun(t)) => raced
    /\ (Quiet /\ temporary_memory.length < max_needed) => raced

\* a thread's kernel is running on a region the other thread's realloc released
C9_Witness ==
    \E t \in Threads :
        /\ tpc[t] = "running"
        /\ Released(blocks, tscratch[t])
        /\ raced

\* both threads are out of the handler and the recorded length is below the
\* largest size asked for
C9_LengthTruncated ==
    /\ Quiet
    /\ temporary_memory.length < max_needed
    /\ ~crashed

-----------------------------------------------------------------------------
(* One call of a registered dense distance function *)

Init ==
    /\ pc = "ready"
    /\ fn \in Functions
    /\ argv \in ArgLists
    /\ encoding = "None"
    /\ metric_calls = <<>>
    /\ result_error = <<>>
    /\ result_double = <<>>
    /\ elems = <<>>
    /\ style = "none"
    /\ blob_call = NoOutcome
    /\ LevIdle
    /\ ThreadsIdle

Return(out) ==
    /\ encoding' = out.encoding
    /\ metric_calls' = out.metric_calls
    /\ result_error' = out.result_error
    /\ result_double' = out.result_double

CallDense ==
    /\ pc = "ready"
    /\ fn.name # "distance_haversine_meters"
    /\ Return(sqlite_dense(fn.scalar_kind, fn.metric_kind, argv))
    /\ pc' = "done"
    /\ UNCHANGED <<fn, argv, elems, style, blob_call, lev_vars, thread_vars>>

CallHaversineMeters ==
    /\ pc = "ready"
    /\ fn.name = "distance_haversine_meters"
    /\ Return(sqlite_haversine_meters(argv))
    /\ pc' = "done"
    /\ UNCHANGED <<fn, argv, elems, style, blob_call, lev_vars, thread_vars>>

Next == CallDense \/ CallHaversineMeters

Spec == Init /\ [][Next]_vars

-----------------------------------------------------------------------------
(* The same two vectors passed as binary buffers, then as delimited text *)

RECURSIVE to_chars(_)
to_chars(value) ==
    IF value < 10 THEN <<Digits[value + 1]>>
    ELSE to_chars(value \div 10) \o <<Digits[(value % 10) + 1]>>

RECURSIVE Join(_, _)
Join(values, separator) ==
    IF values = <<>> THEN <<>>
    ELSE IF Len(values) = 1 THEN to_chars(values[1])
    ELSE to_chars(values[1]) \o separator \o Join(Tail(values), separator)

Styles == {"plain", "bracketed", "spaced"}

Format(values, how) ==
    CASE how = "plain" -> Join(values, <<",">>)
      [] how = "bracketed" -> <<"[">> \o Join(values, <<",">>) \o <<"]">>
      [] how = "spaced" -> Join(values, <<",", " ">>)

Handler(f, argv_) ==
    IF f.name = "distance_haversine_meters"
    THEN sqlite_haversine_meters(argv_)
    ELSE sqlite_dense(f.scalar_kind, f.metric_kind, argv_)

InitEquiv ==
    /\ pc = "ready"
    /\ fn \in Functions
    /\ \E n \in 1..MaxElems :
          elems \in Vectors(fn.scalar_kind, n) \X Vectors(fn.scalar_kind, n)
    /\ style \in Styles
    /\ argv = <<>>
    /\ encoding = "None"
    /\ metric_calls = <<>>
    /\ result_error = <<>>
    /\ result_double = <<>>
    /\ blob_call = NoOutcome
    /\ LevIdle
    /\ ThreadsIdle

CallBinary ==
    /\ pc = "ready"
    /\ style \in Styles
    /\ LET args == <<Blob(Pack(fn.scalar_kind, elems[1])), Blob(Pack(fn.scalar_kind, elems[2]))>>
           out == Handler(fn, args)
       IN /\ argv' = args
          /\ Return(out)
          /\ blob_call' = out
    /\ pc' = "binary_done"
    /\ UNCHANGED <<fn, elems, style, lev_vars, thread_vars>>

CallText ==
    /\ pc = "binary_done"
    /\ LET args == <<Text(Format(elems[1], style)), Text(Format(elems[2], style))>>
       IN /\ argv' = args
          /\ Return(Handler(fn, args))
    /\ pc' = "done"
    /\ UNCHANGED <<fn, elems, style, blob_call, lev_vars, thread_vars>>

NextEquiv == CallBinary \/ CallText

SpecEquiv == InitEquiv /\ [][NextEquiv]_vars

-----------------------------------------------------------------------------
(* Properties of the dense distance functions *)

NoNumber == metric_calls = <<>> /\ result_double = <<>>

BothOfType(type) == Len(argv) = 2 /\ argv[1].type = type /\ argv[2].type = type

\* numerals in a string: the maximal runs of digits
RECURSIVE NumeralCount(_, _)
NumeralCount(chars, inside) ==
    IF chars = <<>> THEN 0
    ELSE IF IsDigit(Head(chars))
         THEN (IF inside THEN 0 ELSE 1) + NumeralCount(Tail(chars), TRUE)
         ELSE NumeralCount(Tail(chars), FALSE)

ElementCount(value) ==
    IF value.type = "BLOB" THEN Len(value.blob) ELSE NumeralCount(value.text, FALSE)

\* C1: two binary buffers of different byte length, or two strings holding a
\* different number of numerals, end in an error message: no metric function
\* is invoked and no number is emitted.
C1_UnequalVectorsFail ==
    (/\ pc = "done"
     /\ BothOfType("BLOB") \/ BothOfType("TEXT")
     /\ ElementCount(argv[1]) # ElementCount(argv[2]))
    => (Len(result_error) = 1 /\ NoNumber)

\* C2: every call emits exactly one outcome, a number or an error message,
\* and a call that ends in an error has invoked no metric function.
C2_ExactlyOneOutcome ==
    pc = "done" =>
        /\ Len(result_error) + Len(result_double) = 1
        /\ result_error # <<>> => metric_calls = <<>>
        /\ result_double # <<>> => Len(metric_calls) = 1

C2_Witness ==
    /\ pc = "done"
    /\ result_error = <<"Number can't be parsed">>
    /\ result_double = <<>>

\* C4 (as claimed): the column-tuple encoding is selected only for an even
\* argument count of at least 4, and a two-argument call that is neither two
\* buffers nor two strings never reaches a metric function.
C4_ColumnTupleFromFour ==
    pc = "done" =>
        /\ encoding = "ColumnTuple" => (Len(argv) % 2 = 0 /\ Len(argv) >= 4)
        /\ (Len(argv) = 2 /\ ~BothOfType("BLOB") /\ ~BothOfType("TEXT")) => metric_calls = <<>>

\* C4 (amended): the column-tuple encoding is selected for every even argument
\* count of at least 2 that is neither two buffers nor two strings; such a
\* two-argument call reaches the metric function with dimension 1 when both
\* arguments are a float, an integer or NULL, and fails with the scalar-column
\* message otherwise.
C4_ColumnTupleFromTwo ==
    pc = "done" =>
        /\ encoding = "ColumnTuple" <=>
              (Len(argv) >= 2 /\ Len(argv) % 2 = 0 /\ ~BothOfType("BLOB") /\ ~BothOfType("TEXT"))
        /\ (Len(argv) = 2 /\ ~BothOfType("BLOB") /\ ~BothOfType("TEXT")) =>
              IF argv[1].type \in {"FLOAT", "INTEGER", "NULL"} /\ argv[2].type \in {"FLOAT", "INTEGER", "NULL"}
              THEN Len(metric_calls) = 1 /\ metric_calls[1].dimensions = 1 /\ result_error = <<>>
              ELSE /\ NoNumber
                   /\ result_error = <<"Scalar columns may only contain 32-bit integers, floats, or NULLs.">>

C4_Witness ==
    /\ pc = "done"
    /\ BothOfType("INTEGER")
    /\ encoding = "ColumnTuple"
    /\ Len(metric_calls) = 1
    /\ Len(result_double) = 1

\* C5: every metric invocation is made with a dimension of at least 1.
C5_DimensionPositive ==
    \A i \in 1..Len(metric_calls) : metric_calls[i].dimensions >= 1

\* C6 (as claimed): every call with an odd argument count fails with the
\* divisibility message and computes no number.
C6_OddCountDivisibilityError ==
    (pc = "done" /\ Len(argv) % 2 = 1) =>
        /\ result_error = <<"Number of columns in two vectors must be divisible by two">>
        /\ NoNumber

\* C6 (amended): every call with an odd argument count of at least 3 fails
\* with the divisibility message, a call with one argument fails with the
\* message about expecting at least two arguments; neither computes a number.
C6_OddCountFails ==
    (pc = "done" /\ Len(argv) % 2 = 1) =>
        /\ result_error = IF Len(argv) = 1
                          THEN <<"Distance function expects at least two arguments">>
                          ELSE <<"Number of columns in two vectors must be divisible by two">>
        /\ NoNumber

C6_Witness ==
    /\ pc = "done"
    /\ Len(argv) = 3
    /\ result_error = <<"Number of columns in two vectors must be divisible by two">>
    /\ argv[1].type = "INTEGER" /\ argv[2].type = "FLOAT"

\* what the kernel is given by one metric invocation
View(call) ==
    [scalar_kind |-> call.scalar_kind, metric_kind |-> call.metric_kind,
     dimensions |-> call.dimensions,
     values1 |-> Unpack(call.scalar_kind, call.vec1, call.dimensions),
     values2 |-> Unpack(call.scalar_kind, call.vec2, call.dimensions)]

PairDone == pc = "done" /\ style \in Styles

\* C7 (as claimed): for every registered function the binary call and the
\* text call of the same element values give the kernel the same scalar
\* kind, metric kind, dimension and values, hence equal distances.
C7_BinaryAndTextAgree ==
    PairDone =>
        /\ Len(blob_call.metric_calls) = 1 /\ Len(metric_calls) = 1
        /\ View(blob_call.metric_calls[1]) = View(metric_calls[1])
        /\ blob_call.result_double = result_double

\* C7 (amended): the binary call and the text call of the same element values
\* give the kernel the same metric kind, dimension and values; the scalar
\* kind, and with it the distance, is the same for the f32 and f64 functions
\* only: for b1x8, i8 and f16 the text call runs the kernel on f32 scalars.
C7_BinaryAndTextAgreeOnFloats ==
    PairDone =>
        /\ Len(blob_call.metric_calls) = 1 /\ Len(metric_calls) = 1
        /\ LET binary == View(blob_call.metric_calls[1])
               text == View(metric_calls[1])
           IN /\ binary.metric_kind = text.metric_kind
              /\ binary.dimensions = text.dimensions
              /\ binary.values1 = elems[1] /\ text.values1 = elems[1]
              /\ binary.values2 = elems[2] /\ text.values2 = elems[2]
              /\ binary.scalar_kind = fn.scalar_kind
              /\ text.scalar_kind = IF fn.scalar_kind = "f64" THEN "f64" ELSE "f32"
              /\ fn.scalar_kind \in {"f32", "f64"} =>
                    (binary = text /\ blob_call.result_double = result_double)

C7_Witness ==
    /\ PairDone
    /\ fn.scalar_kind = "f64"
    /\ style = "bracketed"
    /\ elems = <<<<1, 12>>, <<12, 12>>>>
    /\ Len(metric_calls) = 1
    /\ blob_call.metric_calls = metric_calls

====
